---------------------------- MODULE Spec2Model ----------------------------
(***************************************************************************)
(* A model of raccoon's CAN decoder (src/raccoon/can.py, class CANdecoder): *)
(* run(), sample(), nextbit(), nextfield(), decode() and advance().        *)
(*                                                                         *)
(* Times.  The decoder works in bit-time units (dt = rate * (times - t0)). *)
(* The model measures time in ticks, HalfBit ticks to half a bit time, so  *)
(* that the sampling offset 0.5 is HalfBit, one bit time is Bit, and the   *)
(* glitch window 0.1 is Bit/10 (compared without division).  Arithmetic is *)
(* exact; float rounding is not modelled.                                  *)
(*                                                                         *)
(* Arrays are 0-based in the source and 1-based sequences here: the        *)
(* operator At(a, i) reads a[i] of the source.                             *)
(***************************************************************************)
EXTENDS Integers, Sequences, FiniteSets, TLC

VARIABLES
    x0, dt, origin,                          \* the input (origin: how it was built)
    pc, exc,                                 \* position in run()/decode(), exception in flight
    cursor,
    sample_t, sample_idx, sample_level,      \* the sampling window
    sample_k, last_level, num_repeats, crc,  \* the per-attempt reader state
    samples, frames, annotations, errors,    \* the result buffers
    ident, RTR, IDE, DLC, data, i,           \* locals of decode()
    HLA, last_command_id,                    \* the HLA callable given and its state
    HLA_annotations, HLA_errors,             \* what run() leaves of the HLA's answers
    bus, analog, decoder,                    \* the Session: bus at hand, traces, results
    runs, first_run,                         \* calls of run() so far, what the first left
    digitize_args, digitize_out              \* a call of digitize() and what it returned

input  == <<x0, dt, origin>>
window == <<sample_t, sample_idx, sample_level>>
reader == <<sample_k, last_level, num_repeats, crc>>
tables == <<samples, frames, annotations, errors>>
locals == <<ident, RTR, IDE, DLC, data, i>>
hla    == <<HLA, last_command_id, HLA_annotations, HLA_errors>>
session == <<bus, analog, decoder>>
rerun  == <<runs, first_run>>
outer  == <<hla, session, rerun, digitize_args, digitize_out>>
vars   == <<input, pc, exc, cursor, window, reader, tables, locals, outer>>

(***************************************************************************)
(* Bounds of the model.                                                    *)
(***************************************************************************)
\* ticks per half bit time (the time resolution of the model)
HalfBit == 10
\* longest arbitrary (non-encoded) transition stream
MaxRaw == 3
\* arbitrary transition times lie on multiples of HalfBit up to RawSpan half bits
RawSpan == 6

Bit == 2 * HalfBit

(***************************************************************************)
(* Program constants.                                                      *)
(***************************************************************************)
nbits == 160
crc_poly == 17817
crc_mask == 32767

None == -1

(***************************************************************************)
(* Integer helpers.                                                        *)
(***************************************************************************)
At(a, k) == a[k + 1]

RECURSIVE Pow2(_)
Pow2(n) == IF n = 0 THEN 1 ELSE 2 * Pow2(n - 1)

RECURSIVE BitXor(_, _)
BitXor(a, b) ==
    IF a = 0 THEN b
    ELSE IF b = 0 THEN a
    ELSE ((a + b) % 2) + 2 * BitXor(a \div 2, b \div 2)

RECURSIVE BitAnd(_, _)
BitAnd(a, b) ==
    IF a = 0 \/ b = 0 THEN 0
    ELSE ((a % 2) * (b % 2)) + 2 * BitAnd(a \div 2, b \div 2)

RECURSIVE BitOr(_, _)
BitOr(a, b) ==
    IF a = 0 THEN b
    ELSE IF b = 0 THEN a
    ELSE (IF a % 2 = 1 \/ b % 2 = 1 THEN 1 ELSE 0) + 2 * BitOr(a \div 2, b \div 2)


(***************************************************************************)
(* Exceptions.  A CANerror carries its first argument, the error kind.     *)
(***************************************************************************)
NoExc == [type |-> "none", arg |-> ""]
CANerror(kind) == [type |-> "CANerror", arg |-> kind]
StopIteration == [type |-> "StopIteration", arg |-> ""]
RuntimeError == [type |-> "RuntimeError", arg |-> "All sample bits already consumed."]
IndexError == [type |-> "IndexError", arg |-> ""]

(***************************************************************************)
(* sample(): the window of nbits samples starting at the next candidate    *)
(* edge.  The result is a record: the exception raised (if any) and the    *)
(* cursor and window the call leaves behind.                               *)
(***************************************************************************)
\* np.searchsorted(a, v), side 'left': the binary search for the first index
\* whose entry is not below v
RECURSIVE bisect_left(_, _, _, _)
bisect_left(a, v, lo, hi) ==
    IF lo >= hi THEN lo
    ELSE LET mid == (lo + hi) \div 2
         IN  IF At(a, mid) < v
             THEN bisect_left(a, v, mid + 1, hi)
             ELSE bisect_left(a, v, lo, mid)

searchsorted(a, v) == bisect_left(a, v, 0, Len(a))

\* while cursor < len(dt) - 2 and dt[cursor+1] - dt[cursor] < max_glitch: cursor += 2
RECURSIVE SkipGlitches(_)
SkipGlitches(c) ==
    IF c < Len(dt) - 2 /\ 10 * (At(dt, c + 1) - At(dt, c)) < Bit
    THEN SkipGlitches(c + 2)
    ELSE c

Slice(a, lo, hi) == SubSeq(a, lo + 1, IF hi < Len(a) THEN hi ELSE Len(a))

\* sample() without the step to the next bus-idle state
sample_no_idle_step(c) ==
    LET c2   == SkipGlitches(c)
        t    == [k \in 1..nbits |-> At(dt, c2) + HalfBit + (k - 1) * Bit]
        last == searchsorted(dt, t[nbits])
        part == Slice(dt, c2, c2 + last + 1)
        idx  == [k \in 1..nbits |-> searchsorted(part, t[k])]
    IN  [exc |-> NoExc, cursor |-> c2, t |-> t, idx |-> idx,
         level |-> [k \in 1..nbits |-> (x0 + c2 + idx[k]) % 2]]

sample(c) ==
    LET current_level == (x0 + c) % 2
        c1 == IF current_level = 0 THEN c + 1 ELSE c
    IN  IF c1 >= Len(dt)
        THEN [exc |-> StopIteration, cursor |-> c,
              t |-> sample_t, idx |-> sample_idx, level |-> sample_level]
        ELSE LET c2   == SkipGlitches(c1)
                 t    == [k \in 1..nbits |-> At(dt, c2) + HalfBit + (k - 1) * Bit]
                 last == searchsorted(dt, t[nbits])
                 part == Slice(dt, c2, c2 + last + 1)
                 idx  == [k \in 1..nbits |-> searchsorted(part, t[k])]
             IN  [exc |-> NoExc, cursor |-> c2, t |-> t, idx |-> idx,
                  level |-> [k \in 1..nbits |-> (x0 + c2 + idx[k]) % 2]]

\* advance() with the last entry of sample_idx taken for sample_idx[sample_k - 1]
advance_past_window ==
    LET value == cursor + At(sample_idx, nbits - 1)
    IN  IF value >= Len(dt)
        THEN [exc |-> StopIteration, cursor |-> cursor,
              t |-> sample_t, idx |-> sample_idx, level |-> sample_level]
        ELSE sample(value)

\* advance(): cursor += sample_idx[sample_k - 1], then sample()
advance ==
    LET value == cursor + At(sample_idx, sample_k - 1)
    IN  IF value >= Len(dt)
        THEN [exc |-> StopIteration, cursor |-> cursor,
              t |-> sample_t, idx |-> sample_idx, level |-> sample_level]
        ELSE sample(value)

(***************************************************************************)
(* nextbit() and nextfield() act on the reader state, held in a record:    *)
(* k, last, rep, crc mirror sample_k, last_level, num_repeats, crc;        *)
(* x is the bit returned, value the field returned, exc the exception.     *)
(***************************************************************************)
Cur == [k |-> sample_k, last |-> last_level, rep |-> num_repeats, crc |-> crc,
        samples |-> samples, annotations |-> annotations,
        x |-> 0, value |-> 0, exc |-> NoExc]

\* crc_update with the feedback taken from bit 14 of the shifted register
crc_update_bit14(c, x) ==
    LET shifted == 2 * c
        fed == IF BitXor((shifted \div Pow2(14)) % 2, x) # 0
               THEN BitXor(shifted, crc_poly) ELSE shifted
    IN  BitAnd(fed, crc_mask)

\* crc <<= 1; if (crc >> 15) ^ x: crc ^= crc_poly; crc &= crc_mask
\* (the register holds 15 bits, so the shift never leaves 16 bits)
crc_update(c, x) ==
    LET shifted == 2 * c
        fed == IF BitXor(shifted \div Pow2(15), x) # 0
               THEN BitXor(shifted, crc_poly) ELSE shifted
    IN  BitAnd(fed, crc_mask)

\* nextbit that takes the bit after five equal bits as a stuff bit unseen
nextbit_unchecked_stuff(s, unstuff, update_crc) ==
    IF s.k >= nbits THEN [s EXCEPT !.exc = RuntimeError]
    ELSE
    LET x  == At(sample_level, s.k)
        s1 == [s EXCEPT !.samples = Append(@, [t |-> At(sample_t, s.k), level |-> x]),
                        !.k = @ + 1, !.x = x]
        upd(r) == IF update_crc THEN [r EXCEPT !.crc = crc_update(@, x)] ELSE r
    IN  IF unstuff /\ x = s.last
        THEN IF s.rep + 1 = 5
             THEN IF s1.k >= Len(sample_level)
                  THEN [s1 EXCEPT !.rep = 5, !.exc = IndexError]
                  ELSE LET xstuffed == At(sample_level, s1.k)
                           ts == At(sample_t, s1.k)
                       IN  upd([s1 EXCEPT
                                    !.samples = Append(@, [t |-> ts, level |-> BitOr(xstuffed, 2)]),
                                    !.k = @ + 1, !.last = xstuffed, !.rep = 1])
             ELSE upd([s1 EXCEPT !.rep = @ + 1])
        ELSE upd([s1 EXCEPT !.last = x, !.rep = 1])

\* nextbit that feeds a valid stuff bit into the CRC as well
nextbit_stuffed_crc(s, unstuff, update_crc) ==
    IF s.k >= nbits THEN [s EXCEPT !.exc = RuntimeError]
    ELSE
    LET x  == At(sample_level, s.k)
        s1 == [s EXCEPT !.samples = Append(@, [t |-> At(sample_t, s.k), level |-> x]),
                        !.k = @ + 1, !.x = x]
        upd(r) == IF update_crc THEN [r EXCEPT !.crc = crc_update(@, x)] ELSE r
    IN  IF unstuff /\ x = s.last
        THEN IF s.rep + 1 = 5
             THEN IF s1.k >= Len(sample_level)
                  THEN [s1 EXCEPT !.rep = 5, !.exc = IndexError]
                  ELSE LET xstuffed == At(sample_level, s1.k)
                           ts == At(sample_t, s1.k)
                       IN  IF xstuffed = s.last
                           THEN [s1 EXCEPT !.rep = 5,
                                    !.samples = Append(@, [t |-> ts, level |-> BitOr(xstuffed, 4)]),
                                    !.exc = CANerror("Error frame detected")]
                           ELSE LET r == upd([s1 EXCEPT
                                    !.samples = Append(@, [t |-> ts, level |-> BitOr(xstuffed, 2)]),
                                    !.k = @ + 1, !.last = xstuffed, !.rep = 1])
                                IN  IF update_crc
                                    THEN [r EXCEPT !.crc = crc_update(@, xstuffed)] ELSE r
             ELSE upd([s1 EXCEPT !.rep = @ + 1])
        ELSE upd([s1 EXCEPT !.last = x, !.rep = 1])

\* nextbit that gives up eight slots before the end of the window
nextbit_short_window(s, unstuff, update_crc) ==
    IF s.k >= nbits - 8 THEN [s EXCEPT !.exc = RuntimeError]
    ELSE
    LET x  == At(sample_level, s.k)
        s1 == [s EXCEPT !.samples = Append(@, [t |-> At(sample_t, s.k), level |-> x]),
                        !.k = @ + 1, !.x = x]
        upd(r) == IF update_crc THEN [r EXCEPT !.crc = crc_update(@, x)] ELSE r
    IN  IF unstuff /\ x = s.last
        THEN IF s.rep + 1 = 5
             THEN IF s1.k >= Len(sample_level)
                  THEN [s1 EXCEPT !.rep = 5, !.exc = IndexError]
                  ELSE LET xstuffed == At(sample_level, s1.k)
                           ts == At(sample_t, s1.k)
                       IN  IF xstuffed = s.last
                           THEN [s1 EXCEPT !.rep = 5,
                                    !.samples = Append(@, [t |-> ts, level |-> BitOr(xstuffed, 4)]),
                                    !.exc = CANerror("Error frame detected")]
                           ELSE upd([s1 EXCEPT
                                    !.samples = Append(@, [t |-> ts, level |-> BitOr(xstuffed, 2)]),
                                    !.k = @ + 1, !.last = xstuffed, !.rep = 1])
             ELSE upd([s1 EXCEPT !.rep = @ + 1])
        ELSE upd([s1 EXCEPT !.last = x, !.rep = 1])

nextbit(s, unstuff, update_crc) ==
    IF s.k >= nbits THEN [s EXCEPT !.exc = RuntimeError]
    ELSE
    LET x  == At(sample_level, s.k)
        s1 == [s EXCEPT !.samples = Append(@, [t |-> At(sample_t, s.k), level |-> x]),
                        !.k = @ + 1, !.x = x]
        upd(r) == IF update_crc THEN [r EXCEPT !.crc = crc_update(@, x)] ELSE r
    IN  IF unstuff /\ x = s.last
        THEN IF s.rep + 1 = 5
             THEN IF s1.k >= Len(sample_level)
                  THEN [s1 EXCEPT !.rep = 5, !.exc = IndexError]
                  ELSE LET xstuffed == At(sample_level, s1.k)
                           ts == At(sample_t, s1.k)
                       IN  IF xstuffed = s.last
                           THEN [s1 EXCEPT !.rep = 5,
                                    !.samples = Append(@, [t |-> ts, level |-> BitOr(xstuffed, 4)]),
                                    !.exc = CANerror("Error frame detected")]
                           ELSE upd([s1 EXCEPT
                                    !.samples = Append(@, [t |-> ts, level |-> BitOr(xstuffed, 2)]),
                                    !.k = @ + 1, !.last = xstuffed, !.rep = 1])
             ELSE upd([s1 EXCEPT !.rep = @ + 1])
        ELSE upd([s1 EXCEPT !.last = x, !.rep = 1])

\* the loop of nextfield: value = (value << 1) | nextbit(...)
RECURSIVE readbits(_, _, _, _)
readbits(s, n, unstuff, update_crc) ==
    IF n = 0 THEN s
    ELSE LET r == nextbit(s, unstuff, update_crc)
         IN  IF r.exc # NoExc THEN r
             ELSE readbits([r EXCEPT !.value = 2 * @ + r.x], n - 1, unstuff, update_crc)

\* A label is the field's tag, the data byte's index (or None) and the value
\* formatted into it; every label decode() builds is shorter than
\* MAX_ANNOTATION_LENGTH = 12, so the truncation never cuts.
Label(tag, idx, value) == [tag |-> tag, idx |-> idx, value |-> value]

\* nextfield with the annotation starting where the field ends
nextfield_labelled_at_end(s, n, tag, idx, unstuff, update_crc) ==
    LET r == readbits([s EXCEPT !.value = 0], n, unstuff, update_crc)
    IN  IF r.exc # NoExc THEN r
        ELSE IF r.k >= Len(sample_t) THEN [r EXCEPT !.exc = IndexError]
        ELSE LET t_hi == At(sample_t, r.k) - HalfBit
                 shown == IF tag \in {"EOF", "IFS"} THEN None ELSE r.value
             IN  [r EXCEPT !.annotations =
                      Append(@, [t1 |-> t_hi, t2 |-> t_hi, label |-> Label(tag, idx, shown)])]

nextfield(s, n, tag, idx, unstuff, update_crc) ==
    LET start_k == s.k
        r == readbits([s EXCEPT !.value = 0], n, unstuff, update_crc)
    IN  IF r.exc # NoExc THEN r
        ELSE IF r.k >= Len(sample_t) THEN [r EXCEPT !.exc = IndexError]
        ELSE LET t_lo == At(sample_t, start_k) - HalfBit
                 t_hi == At(sample_t, r.k) - HalfBit
                 shown == IF tag \in {"EOF", "IFS"} THEN None ELSE r.value
             IN  [r EXCEPT !.annotations =
                      Append(@, [t1 |-> t_lo, t2 |-> t_hi, label |-> Label(tag, idx, shown)])]

raise(r, e) == [r EXCEPT !.exc = e]

(***************************************************************************)
(* Control.  pc names the statement of run()/decode() about to execute:    *)
(*   "run"       before run() is called                                    *)
(*   "decode" .. "emit"   the statements of decode()                       *)
(*   "except"    the handler of run() for a CANerror (exc holds it)        *)
(*   "finalize"  the code of run() after its loop                          *)
(*   "done"      run() has returned                                        *)
(*   "raised"    run() has propagated the exception held in exc            *)
(***************************************************************************)
\* where an exception raised inside decode() goes
Handler(e) == IF e.type = "none" THEN "none"
              ELSE IF e.type = "CANerror" THEN "except"
              ELSE IF e.type = "StopIteration" THEN "finalize"
              ELSE "raised"

\* store the reader state a statement of decode() leaves and move on
Step(r, next) ==
    /\ sample_k' = r.k
    /\ last_level' = r.last
    /\ num_repeats' = r.rep
    /\ crc' = r.crc
    /\ samples' = r.samples
    /\ annotations' = r.annotations
    /\ exc' = r.exc
    /\ pc' = IF r.exc = NoExc THEN next ELSE Handler(r.exc)
    /\ UNCHANGED <<input, outer, cursor, window, frames, errors>>

\* store the cursor and window a call of sample()/advance() leaves
Resample(r) ==
    /\ cursor' = r.cursor
    /\ sample_t' = r.t
    /\ sample_idx' = r.idx
    /\ sample_level' = r.level
    /\ IF r.exc = NoExc
       THEN sample_k' = 0 /\ last_level' = None /\ num_repeats' = 0
       ELSE UNCHANGED <<sample_k, last_level, num_repeats>>

\* run() that goes on appending to the samples it already holds
Run_kept_samples ==
    /\ pc = "run"
    /\ IF 0 >= Len(dt)
       THEN /\ pc' = "raised"
            /\ exc' = StopIteration
            /\ UNCHANGED <<cursor, window, reader, tables>>
       ELSE LET r == sample(0)
            IN  /\ Resample(r)
                /\ samples' = samples
                /\ frames' = << >>
                /\ annotations' = << >>
                /\ errors' = << >>
                /\ exc' = r.exc
                /\ pc' = IF r.exc = NoExc THEN "decode" ELSE "raised"
                /\ UNCHANGED crc
    /\ UNCHANGED <<input, outer, locals>>

\* run(), up to its loop
Run ==
    /\ pc = "run"
    /\ IF 0 >= Len(dt)
       THEN /\ pc' = "raised"
            /\ exc' = StopIteration
            /\ UNCHANGED <<cursor, window, reader, tables>>
       ELSE LET r == sample(0)
            IN  /\ Resample(r)
                /\ samples' = << >>
                /\ frames' = << >>
                /\ annotations' = << >>
                /\ errors' = << >>
                /\ exc' = r.exc
                /\ pc' = IF r.exc = NoExc THEN "decode" ELSE "raised"
                /\ UNCHANGED crc
    /\ UNCHANGED <<input, outer, locals>>

DecodeSOF ==
    /\ pc = "decode"
    /\ LET r == nextbit([Cur EXCEPT !.crc = 0], TRUE, TRUE)
       IN  Step(IF r.exc = NoExc /\ r.x # 0
                THEN raise(r, CANerror("Invalid start of frame (SOF) bit")) ELSE r,
                "IDA")
    /\ UNCHANGED locals

DecodeIDA ==
    /\ pc = "IDA"
    /\ LET r == nextfield(Cur, 11, "IDA", None, TRUE, TRUE)
       IN  /\ Step(r, "RTR")
           /\ ident' = IF r.exc = NoExc THEN r.value ELSE ident
    /\ UNCHANGED <<RTR, IDE, DLC, data, i>>

DecodeRTR ==
    /\ pc = "RTR"
    /\ LET r == nextbit(Cur, TRUE, TRUE)
       IN  /\ Step(r, "IDE")
           /\ RTR' = IF r.exc = NoExc THEN r.x ELSE RTR
    /\ UNCHANGED <<ident, IDE, DLC, data, i>>

DecodeIDE ==
    /\ pc = "IDE"
    /\ LET r == nextbit(Cur, TRUE, TRUE)
       IN  /\ Step(IF r.exc = NoExc /\ r.x = 1 /\ RTR = 0
                   THEN raise(r, CANerror("Invalid substitute remote request (SSR) bit"))
                   ELSE r,
                   IF r.x = 1 THEN "IDB" ELSE "r0")
           /\ IDE' = IF r.exc = NoExc THEN r.x ELSE IDE
    /\ UNCHANGED <<ident, RTR, DLC, data, i>>

\* decode() with the first identifier part shifted by 17 bits
DecodeIDB_short_shift ==
    /\ pc = "IDB"
    /\ LET r == nextfield(Cur, 18, "IDB", None, TRUE, TRUE)
       IN  /\ Step(r, "RTR2")
           /\ ident' = IF r.exc = NoExc THEN BitOr(ident * Pow2(17), r.value) ELSE ident
    /\ UNCHANGED <<RTR, IDE, DLC, data, i>>

DecodeIDB ==
    /\ pc = "IDB"
    /\ LET r == nextfield(Cur, 18, "IDB", None, TRUE, TRUE)
       IN  /\ Step(r, "RTR2")
           /\ ident' = IF r.exc = NoExc THEN BitOr(ident * Pow2(18), r.value) ELSE ident
    /\ UNCHANGED <<RTR, IDE, DLC, data, i>>

DecodeRTR2 ==
    /\ pc = "RTR2"
    /\ LET r == nextbit(Cur, TRUE, TRUE)
       IN  /\ Step(r, "r1")
           /\ RTR' = IF r.exc = NoExc THEN r.x ELSE RTR
    /\ UNCHANGED <<ident, IDE, DLC, data, i>>

Decoder1 ==
    /\ pc = "r1"
    /\ Step(nextbit(Cur, TRUE, TRUE), "r0")
    /\ UNCHANGED locals

Decoder0 ==
    /\ pc = "r0"
    /\ Step(nextbit(Cur, TRUE, TRUE), "DLC")
    /\ UNCHANGED locals

DecodeDLC ==
    /\ pc = "DLC"
    /\ LET r == nextfield(Cur, 4, "DLC", None, TRUE, TRUE)
       IN  /\ Step(r, IF RTR = 0 /\ r.value > 0 THEN "DATA" ELSE "CRC")
           /\ IF r.exc = NoExc
              THEN DLC' = r.value /\ data' = [k \in 1..8 |-> 0] /\ i' = 0
              ELSE UNCHANGED <<DLC, data, i>>
    /\ UNCHANGED <<ident, RTR, IDE>>

\* one pass of: for i in range(DLC): data[i] = self.nextfield(8, ...)
DecodeDATA ==
    /\ pc = "DATA"
    /\ LET r == nextfield(Cur, 8, "DATA", i, TRUE, TRUE)
           stored == IF r.exc = NoExc /\ i >= Len(data) THEN raise(r, IndexError) ELSE r
       IN  /\ Step(stored, IF i + 1 < DLC THEN "DATA" ELSE "CRC")
           /\ IF stored.exc = NoExc
              THEN data' = [data EXCEPT ![i + 1] = r.value % 256] /\ i' = i + 1
              ELSE UNCHANGED <<data, i>>
    /\ UNCHANGED <<ident, RTR, IDE, DLC>>

\* decode() without the comparison of the CRC field
DecodeCRC_unchecked ==
    /\ pc = "CRC"
    /\ Step(nextfield(Cur, 15, "CRC", None, TRUE, FALSE), "CRCdelim")
    /\ UNCHANGED locals

DecodeCRC ==
    /\ pc = "CRC"
    /\ LET r == nextfield(Cur, 15, "CRC", None, TRUE, FALSE)
       IN  Step(IF r.exc = NoExc /\ r.value # r.crc
                THEN raise(r, CANerror("CRC failed")) ELSE r,
                "CRCdelim")
    /\ UNCHANGED locals

DecodeCRCdelim ==
    /\ pc = "CRCdelim"
    /\ LET r == nextbit(Cur, FALSE, FALSE)
       IN  Step(IF r.exc = NoExc /\ r.x # 1
                THEN raise(r, CANerror("Invalid CRC delimiter bit")) ELSE r,
                "ACK")
    /\ UNCHANGED locals

\* decode() without the test of the ACK slot
DecodeACK_unchecked ==
    /\ pc = "ACK"
    /\ Step(nextbit(Cur, FALSE, FALSE), "ACKdelim")
    /\ UNCHANGED locals

DecodeACK ==
    /\ pc = "ACK"
    /\ LET r == nextbit(Cur, FALSE, FALSE)
       IN  Step(IF r.exc = NoExc /\ r.x = 1
                THEN raise(r, CANerror("Missing ACK from any receiver")) ELSE r,
                "ACKdelim")
    /\ UNCHANGED locals

DecodeACKdelim ==
    /\ pc = "ACKdelim"
    /\ LET r == nextbit(Cur, FALSE, FALSE)
       IN  Step(IF r.exc = NoExc /\ r.x # 1
                THEN raise(r, CANerror("Invalid ACK delimiter bit")) ELSE r,
                "EOF")
    /\ UNCHANGED locals

DecodeEOF ==
    /\ pc = "EOF"
    /\ LET r == nextfield(Cur, 7, "EOF", None, FALSE, FALSE)
       IN  Step(IF r.exc = NoExc /\ r.value # 127
                THEN raise(r, CANerror("Invalid end of frame (EOF)")) ELSE r,
                "IFS")
    /\ UNCHANGED locals

DecodeIFS ==
    /\ pc = "IFS"
    /\ LET r == nextfield(Cur, 3, "IFS", None, FALSE, FALSE)
       IN  Step(IF r.exc = NoExc /\ r.value # 7
                THEN raise(r, CANerror("Invalid interframe space (IFS)")) ELSE r,
                "emit")
    /\ UNCHANGED locals

\* the end of decode() with tstop taken at sample_t[sample_k]
Emit_late_tstop ==
    /\ pc = "emit"
    /\ LET tstart == At(sample_t, 0) - HalfBit
           tstop  == At(sample_t, sample_k) + HalfBit
           r == advance
       IN  /\ frames' = Append(frames, [t1 |-> tstart, t2 |-> tstop, IDE |-> IDE,
                                        RTR |-> RTR, ID |-> ident, DLC |-> DLC,
                                        DATA |-> data])
           /\ Resample(r)
           /\ exc' = NoExc
           /\ pc' = IF r.exc = NoExc THEN "decode" ELSE "finalize"
    /\ UNCHANGED <<input, outer, crc, samples, annotations, errors, locals>>

\* the end of decode(): the frame is appended, then advance()
Emit ==
    /\ pc = "emit"
    /\ LET tstart == At(sample_t, 0) - HalfBit
           tstop  == At(sample_t, sample_k - 1) + HalfBit
           r == advance
       IN  /\ frames' = Append(frames, [t1 |-> tstart, t2 |-> tstop, IDE |-> IDE,
                                        RTR |-> RTR, ID |-> ident, DLC |-> DLC,
                                        DATA |-> data])
           /\ Resample(r)
           /\ exc' = NoExc
           /\ pc' = IF r.exc = NoExc THEN "decode" ELSE "finalize"
    /\ UNCHANGED <<input, outer, crc, samples, annotations, errors, locals>>

\* the handler with the error timed at the next sample, sample_t[sample_k]
Except_next_sample ==
    /\ pc = "except"
    /\ LET t_error == At(sample_t, sample_k)
           kind == exc.arg
           r == advance
       IN  /\ errors' = IF kind \in DOMAIN errors
                        THEN [errors EXCEPT ![kind] = Append(@, t_error)]
                        ELSE errors @@ (kind :> <<t_error>>)
           /\ annotations' = Append(annotations,
                  [t1 |-> t_error - HalfBit, t2 |-> t_error + HalfBit,
                   label |-> Label("!", None, None)])
           /\ Resample(r)
           /\ exc' = NoExc
           /\ pc' = IF r.exc = NoExc THEN "decode" ELSE "finalize"
    /\ UNCHANGED <<input, outer, crc, samples, frames, locals>>

\* except CANerror as e: record the error and its '!' annotation, then advance()
Except ==
    /\ pc = "except"
    /\ LET t_error == At(sample_t, sample_k - 1)
           kind == exc.arg
           r == advance
       IN  /\ errors' = IF kind \in DOMAIN errors
                        THEN [errors EXCEPT ![kind] = Append(@, t_error)]
                        ELSE errors @@ (kind :> <<t_error>>)
           /\ annotations' = Append(annotations,
                  [t1 |-> t_error - HalfBit, t2 |-> t_error + HalfBit,
                   label |-> Label("!", None, None)])
           /\ Resample(r)
           /\ exc' = NoExc
           /\ pc' = IF r.exc = NoExc THEN "decode" ELSE "finalize"
    /\ UNCHANGED <<input, outer, crc, samples, frames, locals>>

(***************************************************************************)
(* The HLA.  DESIcanbus (src/raccoon/desi.py) is a callable object that    *)
(* remembers the last command it recognised.  Its answer is modelled as a  *)
(* record holding the values formatted into the string:                    *)
(*   [tag |-> "T", id, value]   for  f'{id:d} T={value:04X}'               *)
(*   [tag |-> "<=", id]         for  f'<={id:d}'                           *)
(*   [tag |-> "=>", id, value]  for  f'{command_name}=>{positioner_name}'  *)
(*                              (value: the command, id: the positioner)   *)
(***************************************************************************)
desi_commands == (2..25) \cup (30..37) \cup {40, 41} \cup (43..49)

Text(tag, id, value) == [tag |-> tag, id |-> id, value |-> value]
Unknown == Text("???", None, None)
\* the answer None of an HLA
NoText == Text("None", None, None)

\* DESIcanbus.__call__(frame) with self.last_command_id = last: the answer
\* (NoText: not interpreted) and the last_command_id it leaves
DESIcanbus(last, frame) ==
    IF BitAnd(frame.ID, 268435456) # 0
    THEN LET positioner_id == BitAnd(frame.ID, 1048575)
         IN  IF last = 9
             THEN [text |-> Text("T", positioner_id,
                                 BitOr(frame.DATA[2] * Pow2(8), frame.DATA[1])),
                   last |-> last]
             ELSE [text |-> Text("<=", positioner_id, None), last |-> last]
    ELSE LET command_id == BitAnd(frame.ID, 255)
         IN  IF command_id \notin desi_commands
             THEN [text |-> NoText, last |-> last]
             ELSE [text |-> Text("=>", frame.ID \div Pow2(8), command_id),
                   last |-> command_id]

\* for frame in self.frames[n..]: the loop of run() over the frames, from
\* state st = [last, annotations, errors]
RECURSIVE Interpret(_, _)
Interpret(st, n) ==
    IF n > Len(frames) THEN st
    ELSE LET frame == frames[n]
             r == DESIcanbus(st.last, frame)
             interpreted == IF r.text = NoText THEN Unknown ELSE r.text
         IN  Interpret([last |-> r.last,
                        annotations |-> Append(st.annotations,
                            [t1 |-> frame.t1, t2 |-> frame.t2, label |-> interpreted]),
                        errors |-> IF r.text = NoText THEN st.errors + 1 ELSE st.errors],
                       n + 1)

\* after the loop: the buffers become arrays (their contents are kept), then
\* the HLA, when there is one, is called on every frame
Finalize ==
    /\ pc = "finalize"
    /\ LET st == IF HLA = "DESIcanbus"
                 THEN Interpret([last |-> last_command_id, annotations |-> << >>,
                                 errors |-> 0], 1)
                 ELSE [last |-> last_command_id, annotations |-> << >>, errors |-> 0]
       IN  /\ last_command_id' = st.last
           /\ HLA_annotations' = st.annotations
           /\ HLA_errors' = st.errors
    /\ pc' = "done"
    /\ UNCHANGED <<input, exc, cursor, window, reader, tables, locals>>
    /\ UNCHANGED <<HLA, session, rerun, digitize_args, digitize_out>>

(***************************************************************************)
(* digitize() of src/raccoon/util.py.  Sample values, threshold and        *)
(* hysteresis are integers here; threshold +- 0.5 * hysteresis is compared *)
(* doubled, which is exact.  The result is a record: the exception raised  *)
(* (if any), the transition indices and level0 when transitions is TRUE,   *)
(* the 0/1 samples when it is FALSE.                                       *)
(***************************************************************************)
\* np.where(np.diff(a))[0] + 1: the indices k (0-based) with a[k-1] # a[k]
Changes(a) ==
    SelectSeq([k \in 1..(Len(a) - 1) |-> k], LAMBDA k : a[k] # a[k + 1])

\* the loop over the changes of the deadband flag, from change number j;
\* st = [enter, level, hi]
RECURSIVE Latch(_, _, _, _)
Latch(st, lo, ks, j) ==
    IF j > Len(ks) THEN st
    ELSE LET k == ks[j]
         IN  IF At(lo, k) \/ At(st.hi, k)
             THEN Latch([st EXCEPT !.hi = [m \in 1..Len(st.hi) |->
                                             IF m - 1 >= st.enter /\ m - 1 < k
                                             THEN st.level ELSE st.hi[m]]],
                        lo, ks, j + 1)
             ELSE Latch([st EXCEPT !.enter = k, !.level = At(st.hi, k - 1)],
                        lo, ks, j + 1)

\* digitize whose level0 leaves the inverted flag out
digitize_plain_level0(samples_in, threshold_in, hysteresis_in, transitions, inverted) ==
    LET n  == Len(samples_in)
        hi == [k \in 1..n |-> 2 * samples_in[k] > 2 * threshold_in + hysteresis_in]
        lo == [k \in 1..n |-> 2 * samples_in[k] < 2 * threshold_in - hysteresis_in]
    IN  IF n = 0
        THEN [exc |-> IndexError, indices |-> << >>, level0 |-> None, digital |-> << >>]
        ELSE LET st == Latch([enter |-> 0, level |-> At(samples_in, 0) >= threshold_in,
                              hi |-> hi],
                             lo, Changes([k \in 1..n |-> ~lo[k] /\ ~hi[k]]), 1)
             IN  IF transitions
                 THEN [exc |-> NoExc, indices |-> Changes(st.hi),
                       level0 |-> IF At(st.hi, 0) THEN 1 ELSE 0,
                       digital |-> << >>]
                 ELSE [exc |-> NoExc, indices |-> << >>, level0 |-> None,
                       digital |-> [k \in 1..n |-> IF st.hi[k] # inverted THEN 1 ELSE 0]]

digitize(samples_in, threshold_in, hysteresis_in, transitions, inverted) ==
    LET n  == Len(samples_in)
        hi == [k \in 1..n |-> 2 * samples_in[k] > 2 * threshold_in + hysteresis_in]
        lo == [k \in 1..n |-> 2 * samples_in[k] < 2 * threshold_in - hysteresis_in]
    IN  IF n = 0
        THEN [exc |-> IndexError, indices |-> << >>, level0 |-> None, digital |-> << >>]
        ELSE LET st == Latch([enter |-> 0, level |-> At(samples_in, 0) >= threshold_in,
                              hi |-> hi],
                             lo, Changes([k \in 1..n |-> ~lo[k] /\ ~hi[k]]), 1)
             IN  IF transitions
                 THEN [exc |-> NoExc, indices |-> Changes(st.hi),
                       level0 |-> IF At(st.hi, 0) # inverted THEN 1 ELSE 0,
                       digital |-> << >>]
                 ELSE [exc |-> NoExc, indices |-> << >>, level0 |-> None,
                       digital |-> [k \in 1..n |-> IF st.hi[k] # inverted THEN 1 ELSE 0]]

\* a call of digitize() on its own
Digitize ==
    /\ pc = "digitize"
    /\ digitize_out' = digitize(digitize_args.data, digitize_args.threshold,
                                digitize_args.hysteresis, digitize_args.transitions,
                                digitize_args.inverted)
    /\ pc' = "digitized"
    /\ UNCHANGED <<input, exc, cursor, window, reader, tables, locals>>
    /\ UNCHANGED <<hla, session, rerun, digitize_args>>

(***************************************************************************)
(* Session.__init__ (src/raccoon/session.py): for each bus in turn, the    *)
(* difference CAN_H - CAN_L is digitized, a CANdecoder is built on the     *)
(* transitions and run, and its results are kept in self.decoder.  The     *)
(* same HLA object goes to every decoder.  The printed report and the      *)
(* overview histogram are left out.                                        *)
(*   "session"   at the head of the loop over the buses (bus: the next)    *)
(*   "ready"     Session.__init__ has returned                             *)
(***************************************************************************)
threshold == 180
hysteresis == 50

\* ticks from one analog sample to the next, rate * sampling_period bit times:
\* the traces of the model are sampled once per bit time
SampleTicks == Bit

\* what a decoder holds after run()
Results == [frames |-> frames, annotations |-> annotations, samples |-> samples,
            errors |-> errors, HLA_annotations |-> HLA_annotations,
            HLA_errors |-> HLA_errors]

\* the body of the loop up to D.run(): digitize, then CANdecoder(...)
SessionBus ==
    /\ pc = "session"
    /\ LET trace == analog[bus + 1]
           d == digitize([k \in 1..Len(trace.H) |-> trace.H[k] - trace.L[k]],
                         threshold, hysteresis, TRUE, TRUE)
       IN  IF d.exc # NoExc
           THEN /\ pc' = "raised" /\ exc' = d.exc
                /\ UNCHANGED <<x0, dt>>
           ELSE /\ pc' = "run" /\ exc' = NoExc
                /\ x0' = d.level0
                /\ dt' = [k \in 1..Len(d.indices) |-> d.indices[k] * SampleTicks]
    /\ cursor' = None
    /\ sample_t' = << >> /\ sample_idx' = << >> /\ sample_level' = << >>
    /\ sample_k' = None /\ last_level' = None /\ num_repeats' = None /\ crc' = None
    /\ samples' = << >> /\ frames' = << >> /\ annotations' = << >> /\ errors' = << >>
    /\ ident' = None /\ RTR' = None /\ IDE' = None /\ DLC' = None
    /\ data' = << >> /\ i' = None
    /\ HLA_annotations' = << >> /\ HLA_errors' = None
    /\ UNCHANGED <<origin, HLA, last_command_id, session, rerun, digitize_args, digitize_out>>

\* the rest of the loop body, after D.run() has returned
SessionReport ==
    /\ pc = "done" /\ bus # None
    /\ decoder' = Append(decoder, Results)
    /\ bus' = bus + 1
    /\ pc' = IF bus + 1 < Len(analog) THEN "session" ELSE "ready"
    /\ UNCHANGED <<input, exc, cursor, window, reader, tables, locals>>
    /\ UNCHANGED <<hla, analog, rerun, digitize_args, digitize_out>>

(***************************************************************************)
(* run() called again on the same decoder.                                 *)
(***************************************************************************)
\* how a call of run() ended and the tables it left
Outcome == [pc |-> pc, exc |-> exc, frames |-> frames, annotations |-> annotations,
            samples |-> samples, errors |-> errors]

Rerun ==
    /\ pc \in {"done", "raised"} /\ bus = None /\ runs = 1
    /\ runs' = 2
    /\ first_run' = Outcome
    /\ pc' = "run"
    /\ exc' = NoExc
    /\ UNCHANGED <<input, cursor, window, reader, tables, locals>>
    /\ UNCHANGED <<hla, session, digitize_args, digitize_out>>

(***************************************************************************)
(* The inputs.  A reference CAN transmitter encodes a frame as SOF, the    *)
(* fields, the CRC-15 of SOF..DATA, stuff bits over SOF..CRC, then CRC     *)
(* delimiter 1, ACK 0, ACK delimiter 1, seven EOF bits and three IFS bits, *)
(* with edges on exact bit boundaries of an idle (recessive) bus.          *)
(***************************************************************************)
\* v as n bits, most significant first
FieldBits(v, n) == [k \in 1..n |-> (v \div Pow2(n - k)) % 2]

RECURSIVE ByteBits(_, _)
ByteBits(bytes, k) ==
    IF k > Len(bytes) THEN << >> ELSE FieldBits(bytes[k], 8) \o ByteBits(bytes, k + 1)

\* SOF through DATA of frame f (f.DATA holds the bytes sent)
HeaderBits(f) ==
    <<0>> \o
    (IF f.IDE = 0
     THEN FieldBits(f.ID, 11) \o <<f.RTR, 0, 0>>
     ELSE FieldBits(f.ID \div Pow2(18), 11) \o <<1, 1>> \o
          FieldBits(f.ID % Pow2(18), 18) \o <<f.RTR, 0, 0>>)
    \o FieldBits(f.DLC, 4)
    \o (IF f.RTR = 0 THEN ByteBits(f.DATA, 1) ELSE << >>)

\* CAN CRC-15: register 0 at SOF; per bit, feedback = bit XOR bit 14 of the
\* register, the register shifts left within 15 bits and, on feedback, is
\* XORed with 0x4599
\* (computed over bits[lo..hi] by halves, the left half's register first)
CRC15Bit(reg, b) ==
    LET feedback == (b + (reg \div 16384)) % 2
        shifted  == (2 * reg) % 32768
    IN  IF feedback = 1 THEN BitXor(shifted, 17817) ELSE shifted

RECURSIVE CRC15Range(_, _, _, _)
CRC15Range(bits, lo, hi, reg) ==
    IF lo > hi THEN reg
    ELSE IF lo = hi THEN CRC15Bit(reg, bits[lo])
    ELSE LET mid == (lo + hi) \div 2
             left == CRC15Range(bits, lo, mid, reg)
         IN  IF left >= 0 THEN CRC15Range(bits, mid + 1, hi, left) ELSE left

CRC15(bits) == CRC15Range(bits, 1, Len(bits), 0)

\* after five equal bits (stuff bits counted) the complement is inserted;
\* st holds the output so far, the last bit sent and the length of its run
StuffBit(st, b) ==
    LET r == IF b = st.last THEN st.run + 1 ELSE 1
    IN  IF r = 5
        THEN [out |-> st.out \o <<b, 1 - b>>, last |-> 1 - b, run |-> 1]
        ELSE [out |-> Append(st.out, b), last |-> b, run |-> r]

RECURSIVE StuffRange(_, _, _, _)
StuffRange(bits, lo, hi, st) ==
    IF lo > hi THEN st
    ELSE IF lo = hi THEN StuffBit(st, bits[lo])
    ELSE LET mid == (lo + hi) \div 2
             left == StuffRange(bits, lo, mid, st)
         IN  IF left.run >= 0 THEN StuffRange(bits, mid + 1, hi, left) ELSE left

Stuff(bits) == StuffRange(bits, 1, Len(bits), [out |-> << >>, last |-> None, run |-> 0]).out

Trailer == <<1, 0, 1, 1, 1, 1, 1, 1, 1, 1, 1, 1, 1>>

\* the bits on the wire for frame f
WireBits(f) ==
    LET h == HeaderBits(f)
    IN  Stuff(h \o FieldBits(CRC15(h), 15)) \o Trailer

\* the edges of bits[lo..hi], bit k lasting from t + (k-1) Bit, on a bus that
\* was at `level` before bit 1
RECURSIVE EdgesRange(_, _, _, _, _)
EdgesRange(bits, lo, hi, t, level) ==
    IF lo > hi THEN << >>
    ELSE IF lo = hi
    THEN IF bits[lo] # (IF lo = 1 THEN level ELSE bits[lo - 1])
         THEN <<t + (lo - 1) * Bit>> ELSE << >>
    ELSE LET mid == (lo + hi) \div 2
         IN  EdgesRange(bits, lo, mid, t, level) \o EdgesRange(bits, mid + 1, hi, t, level)

Edges(bits, t, level) == EdgesRange(bits, 1, Len(bits), t, level)

Flip(bits, pos) == [k \in 1..Len(bits) |-> IF k = pos THEN 1 - bits[k] ELSE bits[k]]

Start == 3 * Bit

Payload(n, pat) == [k \in 1..n |-> pat[((k - 1) % Len(pat)) + 1]]

Frame(ide, rtr, id, dlc, pat) ==
    [IDE |-> ide, RTR |-> rtr, ID |-> id, DLC |-> dlc,
     DATA |-> IF rtr = 0 THEN Payload(dlc, pat) ELSE << >>]

StdIds == {0, 291, 1365, 2047}
ExtIds == {0, 262143, 28032495, 536870911}
Patterns == {<<165>>, <<0>>, <<255>>}

\* frames with a stuff bit right after the last data bit and right after the
\* last CRC bit (the CRC of the first ends 00000, of the second 11111)
BoundaryFrames == { Frame(0, 0, 9, 1, <<32>>), Frame(0, 0, 14, 1, <<159>>) }

\* an extended data frame of 8 bytes with 25 stuff bits: 156 bits on the wire
\* with its trailer, the longest a search over identifiers and payloads found
LongestFrames == { Frame(1, 0, 33546744, 8, <<60>>) }

\* frames a conforming transmitter sends: DLC 0..8
CleanFrames ==
    { Frame(0, rtr, id, dlc, pat) : rtr \in {0, 1}, id \in StdIds, dlc \in 0..8, pat \in Patterns }
    \cup
    { Frame(1, rtr, id, dlc, pat) : rtr \in {0, 1}, id \in ExtIds, dlc \in 0..8, pat \in Patterns }
    \cup BoundaryFrames \cup LongestFrames

\* frames with a DLC above 8: data frames with that many data bytes on the
\* wire, and remote frames
LongFrames ==
    { Frame(ide, 0, 291, dlc, <<165, 90>>) : ide \in {0, 1}, dlc \in 9..15 }
    \cup { Frame(ide, 1, 291, dlc, <<0>>) : ide \in {0, 1}, dlc \in {9, 12, 15} }

S1 == Frame(0, 0, 291, 1, <<165>>)
S2 == Frame(1, 1, 28032495, 3, <<0>>)
S3 == Frame(0, 0, 0, 0, <<0>>)
NoFrame == [IDE |-> None, RTR |-> None, ID |-> None, DLC |-> None, DATA |-> << >>]

\* frames whose encodings are also fed with one wire bit flipped
FlipFrames == {S1, S2, S3, Frame(1, 0, 262143, 2, <<255>>)}
\* frames of back-to-back pairs
PairFrames == {S1, S2, S3}
\* how many ticks before the end of the first frame's IFS the second frame of
\* a pair starts (negative: after it)
Shifts == {0, 1, HalfBit - 1, HalfBit, HalfBit + 1, -1, -HalfBit, -Bit}

RawTimes == { k * HalfBit : k \in 0..RawSpan } \cup {1, Bit + 1}

RECURSIVE Increasing(_)
Increasing(n) ==
    IF n = 0 THEN { << >> }
    ELSE LET shorter == Increasing(n - 1)
         IN  shorter \cup
             { Append(q, t) : q \in { p \in shorter : Len(p) = n - 1 }, t \in RawTimes }

RawStreams == { q \in Increasing(MaxRaw) : \A k \in 1..(Len(q) - 1) : q[k] < q[k + 1] }

\* How an input was built: "clean" and "long" are the encoding of frame a;
\* "flip" is the encoding of a with wire bit pos inverted; "pair" is a (with
\* wire bit pos inverted when pos > 0) followed by the encoding of b, which
\* starts shift ticks before a's last IFS bit ends; "raw" is an arbitrary stream.
Origin(kind, a, b, pos, shift) ==
    [kind |-> kind, a |-> a, b |-> b, pos |-> pos, shift |-> shift]

\* the transition stream of an origin (for "raw" it is chosen in Init)
StreamOf(o) ==
    LET first == IF o.pos > 0 THEN Flip(WireBits(o.a), o.pos) ELSE WireBits(o.a)
    IN  IF o.kind = "pair"
        THEN Edges(first, Start, 1)
             \o Edges(WireBits(o.b), Start + Len(first) * Bit - o.shift, first[Len(first)])
        ELSE Edges(first, Start, 1)

Origins ==
    { Origin("clean", f, NoFrame, 0, 0) : f \in CleanFrames }
    \cup { Origin("long", f, NoFrame, 0, 0) : f \in LongFrames }
    \cup UNION { { Origin("flip", f, NoFrame, p, 0) : p \in 1..Len(WireBits(f)) }
                 : f \in FlipFrames }
    \cup { Origin("pair", S1, S1, p, 0) : p \in 1..Len(WireBits(S1)) }
    \cup { Origin("pair", f, g, 0, d) : f \in PairFrames, g \in PairFrames, d \in Shifts }

Init ==
    /\ \/ \E o \in Origins : origin = o /\ x0 = 1 /\ dt = StreamOf(o)
       \/ \E q \in RawStreams, l \in {0, 1} :
              origin = Origin("raw", NoFrame, NoFrame, 0, 0) /\ x0 = l /\ dt = q
    /\ pc = "run"
    /\ exc = NoExc
    /\ cursor = None
    /\ sample_t = << >> /\ sample_idx = << >> /\ sample_level = << >>
    /\ sample_k = None /\ last_level = None /\ num_repeats = None /\ crc = None
    /\ samples = << >> /\ frames = << >> /\ annotations = << >> /\ errors = << >>
    /\ ident = None /\ RTR = None /\ IDE = None /\ DLC = None /\ data = << >> /\ i = None
    /\ HLA = "None" /\ last_command_id = None
    /\ HLA_annotations = << >> /\ HLA_errors = None
    /\ bus = None /\ analog = << >> /\ decoder = << >>
    /\ runs = 1 /\ first_run = << >>
    /\ digitize_args = << >> /\ digitize_out = << >>

Next ==
    \/ Run
    \/ DecodeSOF \/ DecodeIDA \/ DecodeRTR \/ DecodeIDE \/ DecodeIDB \/ DecodeRTR2
    \/ Decoder1 \/ Decoder0 \/ DecodeDLC \/ DecodeDATA \/ DecodeCRC
    \/ DecodeCRCdelim \/ DecodeACK \/ DecodeACKdelim \/ DecodeEOF \/ DecodeIFS
    \/ Emit \/ Except \/ Finalize

Spec == Init /\ [][Next]_vars

(***************************************************************************)
(* run() called twice on every input above.                                *)
(***************************************************************************)
TwiceNext == Next \/ Rerun

TwiceSpec == Init /\ [][TwiceNext]_vars

(***************************************************************************)
(* Sessions.  A trace holds one analog sample per bit time for CAN_H and   *)
(* CAN_L: both 250 while the bus is recessive (bit 1), 380 and 120 while   *)
(* it is dominant (bit 0), with three idle samples before the frame and    *)
(* two after it.                                                           *)
(***************************************************************************)
\* most buses in a session
MaxBus == 3

Trace(bits) ==
    LET line == <<1, 1, 1>> \o bits \o <<1, 1>>
    IN  [H |-> [k \in 1..Len(line) |-> IF line[k] = 0 THEN 380 ELSE 250],
         L |-> [k \in 1..Len(line) |-> IF line[k] = 0 THEN 120 ELSE 250]]

\* DESI traffic: the command get_temperature (9) to positioner 1, and a
\* response of positioner 1 with data bytes 0x34, 0x12
GetTemperature == Frame(1, 0, 265, 0, <<0>>)
Response == Frame(1, 0, 268435457, 2, <<52, 18>>)

SessionTraces ==
    { Trace(WireBits(f)) : f \in {GetTemperature, Response, S1, S3} }
    \cup { Trace(Flip(WireBits(S1), Len(WireBits(S1)) - 13)) }

\* the decoder before CANdecoder(...) has built it
Unbuilt ==
    /\ exc = NoExc
    /\ cursor = None
    /\ sample_t = << >> /\ sample_idx = << >> /\ sample_level = << >>
    /\ sample_k = None /\ last_level = None /\ num_repeats = None /\ crc = None
    /\ samples = << >> /\ frames = << >> /\ annotations = << >> /\ errors = << >>
    /\ ident = None /\ RTR = None /\ IDE = None /\ DLC = None /\ data = << >> /\ i = None
    /\ last_command_id = None
    /\ HLA_annotations = << >> /\ HLA_errors = None
    /\ runs = 1 /\ first_run = << >>

SessionInit ==
    /\ \E n \in 1..MaxBus : analog \in [1..n -> SessionTraces]
    /\ HLA \in {"None", "DESIcanbus"}
    /\ bus = 0 /\ decoder = << >>
    /\ pc = "session"
    /\ origin = Origin("session", NoFrame, NoFrame, 0, 0) /\ x0 = None /\ dt = << >>
    /\ digitize_args = << >> /\ digitize_out = << >>
    /\ Unbuilt

SessionNext == Next \/ SessionBus \/ SessionReport

SessionSpec == SessionInit /\ [][SessionNext]_vars

(***************************************************************************)
(* run() of a decoder built with a fresh DESIcanbus object as its HLA, on  *)
(* captures of two frames of DESI traffic, of one frame with a wire bit    *)
(* inverted, and of a command followed by a data frame with DLC 9.         *)
(***************************************************************************)
HLAFrames == {GetTemperature, Response, S1, S2, S3}

HLAOrigins ==
    { Origin("pair", f, g, 0, 0) : f \in HLAFrames, g \in HLAFrames }
    \cup { Origin("pair", GetTemperature, g, 0, 0) : g \in { f \in LongFrames : f.DLC = 9 } }
    \cup { Origin("pair", S3, Response, p, 0) : p \in 1..Len(WireBits(S3)) }

HLAInit ==
    /\ \E o \in HLAOrigins : origin = o /\ x0 = 1 /\ dt = StreamOf(o)
    /\ pc = "run"
    /\ HLA = "DESIcanbus"
    /\ bus = None /\ analog = << >> /\ decoder = << >>
    /\ digitize_args = << >> /\ digitize_out = << >>
    /\ Unbuilt

HLASpec == HLAInit /\ [][Next]_vars

(***************************************************************************)
(* Calls of digitize() on short sample sequences around the deadband       *)
(* (155, 205) of threshold 180 and hysteresis 50, or with no hysteresis.   *)
(***************************************************************************)
\* longest sample sequence
MaxSamples == 4

\* below the deadband, inside it below the threshold, inside it at the
\* threshold, above it
Levels == {100, 160, 180, 300}

DigitizeInit ==
    /\ \E n \in 0..MaxSamples :
           digitize_args \in [data : [1..n -> Levels], threshold : {threshold},
                              hysteresis : {hysteresis, 0},
                              transitions : BOOLEAN, inverted : BOOLEAN]
    /\ digitize_out = << >>
    /\ pc = "digitize"
    /\ origin = Origin("digitize", NoFrame, NoFrame, 0, 0) /\ x0 = None /\ dt = << >>
    /\ HLA = "None" /\ bus = None /\ analog = << >> /\ decoder = << >>
    /\ Unbuilt

DigitizeNext == Digitize

DigitizeSpec == DigitizeInit /\ [][DigitizeNext]_vars

(***************************************************************************)
(* Vocabulary of the properties.                                           *)
(***************************************************************************)
Returned == pc \in {"finalize", "done"}

Pad8(d) == [k \in 1..8 |-> IF k <= Len(d) THEN d[k] ELSE 0]

\* decoded frame f carries the fields of the transmitted frame g
Same(f, g) ==
    /\ f.IDE = g.IDE /\ f.RTR = g.RTR /\ f.ID = g.ID /\ f.DLC = g.DLC
    /\ f.DATA = Pad8(g.DATA)

ErrorCount(kind) == IF kind \in DOMAIN errors THEN Len(errors[kind]) ELSE 0

\* the samples recorded inside frame f's time range as bits actually read
\* (the peeked sample of a stuff violation, flag 4, is not one)
InFrame(f, e) == e.t > f.t1 /\ e.t < f.t2 /\ e.level < 4
RawOf(f) == SelectSeq(samples, LAMBDA e : InFrame(f, e))
RawBits(f) == LET r == RawOf(f) IN [k \in 1..Len(r) |-> r[k].level % 2]
\* the same without the stuff bits (flag 2)
Destuffed(f) ==
    LET r == SelectSeq(samples, LAMBDA e : InFrame(f, e) /\ e.level < 2)
    IN  [k \in 1..Len(r) |-> r[k].level]

\* SOF through DATA of a decoded frame, in bits
HeaderLen(f) ==
    1 + 11 + 1 + 1 + (IF f.IDE = 1 THEN 18 + 1 + 1 ELSE 0) + 1 + 4
    + (IF f.RTR = 0 THEN 8 * f.DLC ELSE 0)

RECURSIVE ValueOf(_)
ValueOf(bits) ==
    IF Len(bits) = 0 THEN 0
    ELSE 2 * ValueOf(SubSeq(bits, 1, Len(bits) - 1)) + bits[Len(bits)]

NoSixRun(bits) ==
    \A k \in 1..(Len(bits) - 5) : \E j \in 1..5 : bits[k + j] # bits[k]

(***************************************************************************)
(* C1.  Round trip: the clean encoding of a frame (DLC 0..8, either format, *)
(* data or remote) never raises an error, and when run() returns, frames   *)
(* holds exactly that frame (DATA zero beyond DLC and for remote frames)   *)
(* and the error table is empty.                                           *)
(***************************************************************************)
C1_RoundTrip ==
    origin.kind = "clean" =>
        /\ pc \notin {"except", "raised"}
        /\ DOMAIN errors = {}
        /\ Len(frames) <= 1
        /\ Returned => Len(frames) = 1 /\ Same(frames[1], origin.a)

C1_Witness ==
    /\ origin.kind = "clean" /\ pc = "done"
    /\ origin.a.IDE = 1 /\ origin.a.RTR = 0 /\ origin.a.DLC = 8
    /\ Len(frames) = 1 /\ Same(frames[1], origin.a)

(***************************************************************************)
(* C2.  For every frame in frames, whatever the stream: the 15 destuffed   *)
(* bits read after SOF..DATA equal the CAN CRC-15 of the destuffed bits    *)
(* SOF..DATA; stuff bits, the CRC field and the trailer are not part of it. *)
(***************************************************************************)
C2_CRCMatches ==
    \A n \in 1..Len(frames) :
        LET f == frames[n]
            b == Destuffed(f)
            h == HeaderLen(f)
        IN  /\ Len(b) = h + 15 + 13
            /\ ValueOf(SubSeq(b, h + 1, h + 15)) = CRC15(SubSeq(b, 1, h))

\* a frame decoded from a stream that is not a clean encoding, with stuff bits in it
C2_Witness ==
    /\ origin.kind \in {"flip", "pair"} /\ origin.pos > 0
    /\ \E n \in 1..Len(frames) :
           \E k \in 1..Len(samples) :
               /\ samples[k].t > frames[n].t1 /\ samples[k].t < frames[n].t2
               /\ samples[k].level \in {2, 3}

(***************************************************************************)
(* C3.  Stuff rule.  While SOF..CRC are read, the bits consumed never hold *)
(* six equal raw bits in a row; when five equal raw bits are followed by a *)
(* sixth, the attempt ends with 'Error frame detected' and that sixth      *)
(* sample is recorded with flag 4; no frame in frames has six equal raw    *)
(* bits in a row between its SOF and the end of its CRC field.             *)
(***************************************************************************)
StuffedPcs == {"IDA", "RTR", "IDE", "IDB", "RTR2", "r1", "r0", "DLC", "DATA", "CRC", "CRCdelim"}
StuffedKinds == {"Invalid start of frame (SOF) bit",
                 "Invalid substitute remote request (SSR) bit",
                 "CRC failed", "Error frame detected"}

C3_StuffRule ==
    /\ (pc \in StuffedPcs \/ (pc = "except" /\ exc.arg \in StuffedKinds))
           => NoSixRun(SubSeq(sample_level, 1, sample_k))
    /\ (pc = "except" /\ exc.arg = "Error frame detected") =>
           LET e == samples[Len(samples)]
           IN  /\ e.level \in {4, 5}
               /\ e.t = At(sample_t, sample_k)
               /\ sample_k >= 5
               /\ \A j \in (sample_k - 5)..sample_k : At(sample_level, j) = e.level - 4
    /\ \A n \in 1..Len(frames) :
           LET r == RawBits(frames[n])
           IN  NoSixRun(SubSeq(r, 1, Len(r) - 13))

C3_Witness ==
    /\ pc = "except" /\ exc.arg = "Error frame detected"
    /\ sample_k > 20
    /\ samples[Len(samples)].level = 5

(***************************************************************************)
(* C4.  Trailer validity.  Every frame in frames ends with thirteen bits   *)
(* read as they are (no stuff bit among them): CRC delimiter 1, ACK 0, ACK *)
(* delimiter 1, seven EOF bits 1 and three IFS bits 1; and an extended     *)
(* frame has bit 1 in the slot before IDE.                                 *)
(***************************************************************************)
C4_TrailerValid ==
    \A n \in 1..Len(frames) :
        LET f == frames[n]
            r == RawOf(f)
            tail == SubSeq(r, Len(r) - 12, Len(r))
        IN  /\ Len(r) >= 13
            /\ [k \in 1..13 |-> tail[k].level] = Trailer
            /\ \A k \in 1..12 : tail[k + 1].t = tail[k].t + Bit
            /\ tail[13].t + HalfBit = f.t2
            /\ f.IDE = 1 => Destuffed(f)[13] = 1

\* two frames, one of them extended, are in frames
C4_Witness ==
    /\ origin.kind = "pair" /\ pc = "done"
    /\ Len(frames) = 2 /\ frames[2].IDE = 1

(***************************************************************************)
(* C5.  Empty input: with no transitions, run() returns normally and       *)
(* frames, annotations, samples and errors are empty.                      *)
(***************************************************************************)
C5_EmptyInput ==
    (Len(dt) = 0 /\ pc # "run") =>
        /\ Returned /\ exc = NoExc
        /\ frames = << >> /\ annotations = << >> /\ samples = << >> /\ DOMAIN errors = {}

(***************************************************************************)
(* C6.  Uniform end of stream: on a non-empty stream, reaching the end of  *)
(* dt ends run() normally wherever it happens, the first sample() call     *)
(* included: run() never propagates the end-of-stream signal.              *)
(***************************************************************************)
C6_EndOfStream ==
    Len(dt) > 0 => ~(pc = "raised" /\ exc = StopIteration)

(***************************************************************************)
(* C7.  Termination: every pass of the loop of run() ends the run by end   *)
(* of stream or finishes a parse attempt as a frame or as a recorded       *)
(* error, so the loop is left only through end of stream, after at most    *)
(* len(dt) parse attempts.                                                 *)
(***************************************************************************)
LoopPcs == {"decode", "IDA", "RTR", "IDE", "IDB", "RTR2", "r1", "r0", "DLC", "DATA",
            "CRC", "CRCdelim", "ACK", "ACKdelim", "EOF", "IFS", "emit", "except"}

RECURSIVE SumLen(_, _)
SumLen(f, ks) ==
    IF ks = {} THEN 0
    ELSE LET k == CHOOSE x \in ks : TRUE IN Len(f[k]) + SumLen(f, ks \ {k})

\* parse attempts begun so far
Attempts ==
    Len(frames) + SumLen(errors, DOMAIN errors)
    + (IF pc \in LoopPcs \ {"emit", "except"} THEN 1 ELSE 0)
    + (IF pc = "raised" /\ exc # StopIteration THEN 1 ELSE 0)

C7_LoopEndsByEndOfStream ==
    /\ Attempts <= Len(dt)
    /\ pc = "raised" => exc = StopIteration

(***************************************************************************)
(* C8.  DLC above 8: a parse attempt that read RTR = 0 and a DLC in 9..15  *)
(* reads its data bits, goes on to the CRC field and ends as a frame or a  *)
(* recorded protocol error; run() does not stop there.                     *)
(***************************************************************************)
C8_LongDLCGoesOn ==
    ~(pc = "raised" /\ RTR = 0 /\ DLC \in 9..15)

(***************************************************************************)
(* C9.  Adjacent frames never overlap: f_{i+1}.t1 >= f_i.t2.               *)
(***************************************************************************)
C9_NoOverlap ==
    \A n \in 1..(Len(frames) - 1) : frames[n + 1].t1 >= frames[n].t2

\* C9 as amended: a frame starts no earlier than the centre of the last
\* sample consumed by the frame before it, half a bit time before that
\* frame's t2.
C9_StartsAfterLastSample ==
    \A n \in 1..(Len(frames) - 1) : frames[n + 1].t1 >= frames[n].t2 - HalfBit

\* two frames that overlap
C9_Witness ==
    /\ Len(frames) = 2
    /\ frames[2].t1 < frames[1].t2

(***************************************************************************)
(* C10.  Recovery (S6): S1 with one bit of its CRC field inverted on the   *)
(* wire, then a clean S1.  run() emits exactly one frame, the second, and  *)
(* records exactly one 'CRC failed' error, timestamped before that frame's *)
(* t1; for each choice of the inverted CRC bit.                            *)
(***************************************************************************)
\* the place on the wire of bit j of the unstuffed sequence bits
WirePos(bits, j) ==
    LET st == StuffRange(bits, 1, j, [out |-> << >>, last |-> None, run |-> 0])
    IN  IF st.last = bits[j] THEN Len(st.out) ELSE Len(st.out) - 1

\* the places on the wire of the 15 bits of f's CRC field
CRCWire(f) ==
    LET h == HeaderBits(f)
        all == h \o FieldBits(CRC15(h), 15)
    IN  { WirePos(all, j) : j \in (Len(h) + 1)..(Len(h) + 15) }

S6 ==
    /\ origin.kind = "pair" /\ origin.a = S1 /\ origin.b = S1 /\ origin.shift = 0
    /\ origin.pos \in CRCWire(S1)

\* the inverted bit leaves six equal bits in a row between SOF and the end of the CRC
S6_BreaksStuffing ==
    LET w == Flip(WireBits(origin.a), origin.pos)
    IN  ~NoSixRun(SubSeq(w, 1, Len(w) - 13))

S6_Outcome ==
    /\ Len(frames) = 1 /\ Same(frames[1], S1)
    /\ frames[1].t1 = Start + Len(WireBits(S1)) * Bit
    /\ ErrorCount("CRC failed") = 1
    /\ errors["CRC failed"][1] < frames[1].t1

C10_Recovery == (S6 /\ Returned) => S6_Outcome

\* C10 as amended: the same for each choice of the CRC bit that leaves no six
\* equal bits in a row on the wire; for a choice that does, the first frame
\* ends as 'Error frame detected', no 'CRC failed' error is recorded, and the
\* second frame is still the only one emitted.
C10_RecoveryUnlessStuffBroken ==
    (S6 /\ Returned) =>
        IF S6_BreaksStuffing
        THEN /\ Len(frames) = 1 /\ Same(frames[1], S1)
             /\ frames[1].t1 = Start + Len(WireBits(S1)) * Bit
             /\ ErrorCount("CRC failed") = 0
             /\ ErrorCount("Error frame detected") >= 1
             /\ errors["Error frame detected"][1] < frames[1].t1
        ELSE S6_Outcome

C10_Witness ==
    /\ S6 /\ ~S6_BreaksStuffing /\ pc = "done" /\ S6_Outcome

(***************************************************************************)
(* C11.  CRC corruption (S4): the encoding of S1 with one bit of its CRC   *)
(* field inverted on the wire, for each choice of that bit.  run() emits   *)
(* no frame, the 'CRC failed' bucket holds exactly one timestamp, and a    *)
(* '!' annotation lies within the time range of the CRC field.             *)
(***************************************************************************)
IsBang(a) == a.label.tag = "!"

\* the '!' annotations, in the order they were recorded
Bangs == SelectSeq(annotations, IsBang)

\* first and last place on the wire of f's CRC field
CRCFirst(f) == CHOOSE p \in CRCWire(f) : \A q \in CRCWire(f) : p <= q
CRCLast(f) == CHOOSE p \in CRCWire(f) : \A q \in CRCWire(f) : p >= q

\* a '!' annotation lies within the CRC field of the frame sent at Start
BangInCRC(f) ==
    \E n \in 1..Len(Bangs) :
        /\ Bangs[n].t1 >= Start + (CRCFirst(f) - 1) * Bit
        /\ Bangs[n].t2 <= Start + CRCLast(f) * Bit

S4 == origin.kind = "flip" /\ origin.a = S1 /\ origin.pos \in CRCWire(S1)

S4_Outcome ==
    /\ frames = << >>
    /\ ErrorCount("CRC failed") = 1
    /\ BangInCRC(S1)

C11_CRCCorruption == (S4 /\ Returned) => S4_Outcome

\* C11 as amended: the same for each choice of the CRC bit that leaves no six
\* equal bits in a row on the wire; for a choice that does, no frame is
\* emitted, the attempt ends as 'Error frame detected' with its '!' annotation
\* within the CRC field, and no 'CRC failed' error is recorded.
C11_CRCCorruptionUnlessStuffBroken ==
    (S4 /\ Returned) =>
        IF S6_BreaksStuffing
        THEN /\ frames = << >>
             /\ ErrorCount("CRC failed") = 0
             /\ ErrorCount("Error frame detected") >= 1
             /\ BangInCRC(S1)
        ELSE S4_Outcome

C11_Witness ==
    /\ S4 /\ ~S6_BreaksStuffing /\ pc = "done" /\ S4_Outcome

(***************************************************************************)
(* C12.  Back-to-back frames: two clean encodings, the second starting     *)
(* exactly where the third IFS bit of the first ends.  run() raises no     *)
(* error and emits both frames, in order.                                  *)
(***************************************************************************)
BackToBack == origin.kind = "pair" /\ origin.pos = 0 /\ origin.shift = 0

C12_BackToBack ==
    BackToBack =>
        /\ pc \notin {"except", "raised"}
        /\ DOMAIN errors = {}
        /\ Returned =>
               /\ Len(frames) = 2
               /\ Same(frames[1], origin.a) /\ Same(frames[2], origin.b)
               /\ frames[1].t1 = Start
               /\ frames[2].t1 = Start + Len(WireBits(origin.a)) * Bit
               /\ frames[2].t1 = frames[1].t2

\* an extended remote frame right after a standard data frame
C12_Witness ==
    /\ BackToBack /\ origin.a = S1 /\ origin.b = S2 /\ pc = "done"
    /\ Len(frames) = 2 /\ frames[2].t1 = frames[1].t2

(***************************************************************************)
(* C13.  Stuff bit at a field boundary.  When the clean encoding of a      *)
(* frame has a stuff bit right after its last data bit, or right after the *)
(* last bit of its CRC field, that bit is recorded in samples with the     *)
(* valid-stuff flag (level 2 or 3), it is part of no field value and not   *)
(* of the CRC, and the frame is emitted without error.                     *)
(***************************************************************************)
\* SOF through CRC of frame f before stuffing
Unstuffed(f) == LET h == HeaderBits(f) IN h \o FieldBits(CRC15(h), 15)

\* the transmitter inserts a stuff bit right after bit j of bits
StuffedAfter(bits, j) ==
    StuffRange(bits, 1, j, [out |-> << >>, last |-> None, run |-> 0]).last # bits[j]

\* the last bit of the data field and of the CRC field of f, where followed
\* by a stuff bit
StuffedBoundaries(f) ==
    LET h == Len(HeaderBits(f))
    IN  { j \in (IF f.RTR = 0 /\ f.DLC > 0 THEN {h} ELSE {}) \cup {h + 15} :
              StuffedAfter(Unstuffed(f), j) }

\* the sample taken in the bit cell after wire place p of the frame sent at Start
SampleAfter(p) ==
    LET at == SelectSeq(samples, LAMBDA e : e.t = Start + p * Bit + HalfBit)
    IN  IF Len(at) = 1 THEN at[1].level ELSE None

C13_BoundaryStuff ==
    (origin.kind = "clean" /\ StuffedBoundaries(origin.a) # {}) =>
        /\ pc \notin {"except", "raised"}
        /\ Returned =>
               /\ DOMAIN errors = {}
               /\ Len(frames) = 1 /\ Same(frames[1], origin.a)
               /\ Destuffed(frames[1]) = Unstuffed(origin.a) \o Trailer
               /\ \A j \in StuffedBoundaries(origin.a) :
                      SampleAfter(WirePos(Unstuffed(origin.a), j))
                          = 2 + (1 - Unstuffed(origin.a)[j])

\* a frame with a stuff bit at both boundaries has been decoded
C13_Witness ==
    /\ origin.kind = "clean" /\ pc = "done" /\ Len(frames) = 1
    /\ Cardinality(StuffedBoundaries(origin.a)) = 2
    /\ \A j \in StuffedBoundaries(origin.a) :
           SampleAfter(WirePos(Unstuffed(origin.a), j)) \in {2, 3}

(***************************************************************************)
(* C14.  Error accounting.  At every moment the error buckets hold as many *)
(* timestamps as there are '!' annotations; the handler of run() records   *)
(* the error at t, the centre of the last sample the failed attempt        *)
(* consumed, in the bucket of its kind, together with a '!' annotation     *)
(* spanning (t - 0.5, t + 0.5); nothing else adds an error or a '!'.       *)
(***************************************************************************)
ErrorTotal == SumLen(errors, DOMAIN errors)

\* the centre of the last sample consumed (a sample flagged 4 was only peeked)
LastConsumed ==
    LET c == SelectSeq(samples, LAMBDA e : e.level < 4) IN c[Len(c)].t

Bucket(es, kind) == IF kind \in DOMAIN es THEN es[kind] ELSE << >>

C14_Recorded ==
    IF pc = "except"
    THEN LET t == LastConsumed
         IN  /\ annotations' = Append(annotations,
                    [t1 |-> t - HalfBit, t2 |-> t + HalfBit, label |-> Label("!", None, None)])
             /\ Bucket(errors', exc.arg) = Append(Bucket(errors, exc.arg), t)
             /\ \A kind \in DOMAIN errors \ {exc.arg} : errors'[kind] = errors[kind]
             /\ DOMAIN errors' = DOMAIN errors \cup {exc.arg}
    ELSE /\ errors' = errors
         /\ SelectSeq(annotations', IsBang) = Bangs

C14_ErrorAccounting ==
    /\ [](ErrorTotal = Len(Bangs))
    /\ [][C14_Recorded]_vars

\* errors of two kinds have been recorded, one of them a stuff violation
C14_Witness ==
    /\ pc = "done"
    /\ ErrorCount("CRC failed") = 1 /\ ErrorCount("Error frame detected") = 1
    /\ Len(Bangs) = 2
    /\ Bangs[2].t2 - Bangs[2].t1 = Bit

(***************************************************************************)
(* C15.  Capture-time order.  Frames are in increasing order of t1; the    *)
(* timestamps of each error bucket are increasing, and so are the errors   *)
(* in the order they were recorded (the order of their '!' annotations);   *)
(* annotations are in non-decreasing order of t1.                          *)
(***************************************************************************)
C15_CaptureOrder ==
    /\ \A n \in 1..(Len(frames) - 1) : frames[n].t1 < frames[n + 1].t1
    /\ \A kind \in DOMAIN errors :
           \A n \in 1..(Len(errors[kind]) - 1) : errors[kind][n] < errors[kind][n + 1]
    /\ \A n \in 1..(Len(Bangs) - 1) : Bangs[n].t1 < Bangs[n + 1].t1
    /\ \A n \in 1..(Len(annotations) - 1) : annotations[n].t1 <= annotations[n + 1].t1

\* a frame after two recorded errors, one of them right after a field annotation
C15_Witness ==
    /\ pc = "done" /\ Len(frames) = 1
    /\ ErrorCount("CRC failed") = 1 /\ ErrorCount("Error frame detected") = 1
    /\ \E n \in 1..(Len(annotations) - 1) :
           /\ annotations[n].label.tag = "CRC" /\ IsBang(annotations[n + 1])
           /\ annotations[n].t1 < annotations[n + 1].t1

(***************************************************************************)
(* C16.  Bus independence.  Within one Session, what a decoder holds for a *)
(* bus (frames, annotations, samples, errors, HLA annotations and HLA      *)
(* error count) is a function of that bus's own traces: two buses of a     *)
(* session with the same traces end with the same results, whatever the    *)
(* other buses carry and wherever they stand in the decoding order, also   *)
(* when the session's HLA is a DESIcanbus object.                          *)
(***************************************************************************)
C16_BusIndependence ==
    \A a \in 1..Len(decoder) : \A b \in 1..Len(decoder) :
        analog[a] = analog[b] => decoder[a] = decoder[b]

(***************************************************************************)
(* C17.  Idempotence.  run() called a second time on the same decoder      *)
(* (no HLA) ends the way the first call ended and leaves the same frames,  *)
(* annotations, samples and errors: nothing the first call left (cursor,   *)
(* sampling window, last_level, num_repeats, crc, the result buffers)      *)
(* shows in the second.                                                    *)
(***************************************************************************)
C17_Idempotent ==
    (runs = 2 /\ pc \in {"done", "raised"}) => Outcome = first_run

\* a second run that decoded a frame after two recorded errors
C17_Witness ==
    /\ runs = 2 /\ pc = "done"
    /\ Len(frames) = 1 /\ ErrorTotal = 2 /\ Len(samples) > 50
    /\ Outcome = first_run

(***************************************************************************)
(* C18.  Deadband latching in digitize.  For every sample sequence,        *)
(* threshold and hysteresis: each maximal run of samples inside the        *)
(* deadband takes the last unambiguous level before the run, or            *)
(* data[0] >= threshold when the run starts at index 0, also when the run  *)
(* lasts to the end of the data; so no transition index is reported at the *)
(* start of or inside a deadband-only run.                                 *)
(***************************************************************************)
Above(a, k) == 2 * a.data[k] > 2 * a.threshold + a.hysteresis
Below(a, k) == 2 * a.data[k] < 2 * a.threshold - a.hysteresis
InDeadband(a, k) == ~Above(a, k) /\ ~Below(a, k)

\* the maximal runs of samples inside the deadband, as pairs <<from, to>>
DeadbandRuns(a) ==
    { r \in (1..Len(a.data)) \X (1..Len(a.data)) :
          /\ r[1] <= r[2]
          /\ \A k \in r[1]..r[2] : InDeadband(a, k)
          /\ r[1] > 1 => ~InDeadband(a, r[1] - 1)
          /\ r[2] < Len(a.data) => ~InDeadband(a, r[2] + 1) }

\* the level a run starting at sample from (1-based) is to take
LatchedLevel(a, from) ==
    IF from = 1 THEN a.data[1] >= a.threshold ELSE Above(a, from - 1)

\* the level (is it high?) digitize gave sample k, read off what it returned
LevelGiven(a, out, k) ==
    IF a.transitions
    THEN ((out.level0 + Cardinality({ n \in 1..Len(out.indices) : out.indices[n] <= k - 1 }))
             % 2 = 1) # a.inverted
    ELSE (out.digital[k] = 1) # a.inverted

C18_DeadbandLatched ==
    (pc = "digitized" /\ digitize_out.exc = NoExc) =>
        \A r \in DeadbandRuns(digitize_args) :
            /\ \A k \in r[1]..r[2] :
                   LevelGiven(digitize_args, digitize_out, k)
                       = LatchedLevel(digitize_args, r[1])
            /\ digitize_args.transitions =>
                   \A n \in 1..Len(digitize_out.indices) :
                       digitize_out.indices[n] \notin (r[1] - 1)..(r[2] - 1)

(***************************************************************************)
(* C19.  Missing ACK (S5): the encoding of S1 with the ACK slot left       *)
(* recessive.  run() emits no frame and records exactly one error, of kind *)
(* 'Missing ACK from any receiver', timestamped at the sample of the ACK   *)
(* slot; no other kind of error is raised or recorded.                     *)
(***************************************************************************)
\* the place on the wire of f's ACK slot
ACKWire(f) == Len(WireBits(f)) - 11

S5 == origin.kind = "flip" /\ origin.a = S1 /\ origin.pos = ACKWire(S1)

C19_MissingACK ==
    S5 =>
        /\ pc # "raised"
        /\ pc = "except" => exc = CANerror("Missing ACK from any receiver")
        /\ frames = << >>
        /\ Returned =>
               errors = ("Missing ACK from any receiver" :>
                             <<Start + (ACKWire(S1) - 1) * Bit + HalfBit>>)

C19_Witness ==
    /\ S5 /\ pc = "done"
    /\ ErrorCount("Missing ACK from any receiver") = 1 /\ ErrorTotal = 1
    /\ Len(Bangs) = 1

(***************************************************************************)
(* C20.  Field ranges of emitted frames.  For every frame in frames:       *)
(* IDE = 0 implies ID < 2^11; IDE = 1 implies ID < 2^29 and                *)
(* ID = (ID_A << 18) | ID_B for the two identifier fields read; DLC is in  *)
(* 0..15; DATA bytes at indices >= min(DLC, 8) are zero; for a remote      *)
(* frame no data bits are read and all eight DATA bytes are zero whatever  *)
(* the DLC.                                                                *)
(***************************************************************************)
\* the values of the fields tagged tag that were read inside frame f
FieldsOf(f, tag) ==
    LET a == SelectSeq(annotations,
                       LAMBDA e : e.label.tag = tag /\ e.t1 >= f.t1 /\ e.t2 <= f.t2)
    IN  [k \in 1..Len(a) |-> a[k].label.value]

C20_FieldRanges ==
    \A n \in 1..Len(frames) :
        LET f == frames[n]
            ida == FieldsOf(f, "IDA")
            idb == FieldsOf(f, "IDB")
        IN  /\ f.IDE \in {0, 1} /\ f.RTR \in {0, 1}
            /\ Len(ida) = 1 /\ ida[1] < Pow2(11)
            /\ f.IDE = 0 => f.ID < Pow2(11) /\ f.ID = ida[1] /\ Len(idb) = 0
            /\ f.IDE = 1 => /\ f.ID < Pow2(29)
                            /\ Len(idb) = 1 /\ idb[1] < Pow2(18)
                            /\ f.ID = ida[1] * Pow2(18) + idb[1]
            /\ f.DLC \in 0..15
            /\ FieldsOf(f, "DLC") = <<f.DLC>>
            /\ Len(f.DATA) = 8
            /\ \A k \in 0..7 :
                   /\ f.DATA[k + 1] \in 0..255
                   /\ k >= (IF f.DLC < 8 THEN f.DLC ELSE 8) => f.DATA[k + 1] = 0
            /\ f.RTR = 1 => /\ \A k \in 0..7 : f.DATA[k + 1] = 0
                            /\ Len(FieldsOf(f, "DATA")) = 0
                            /\ Len(Destuffed(f)) = HeaderLen(f) + 15 + 13
            /\ f.RTR = 0 => FieldsOf(f, "DATA") = SubSeq(f.DATA, 1, f.DLC)

\* an extended remote frame with DLC 15 has been emitted
C20_Witness ==
    /\ pc = "done" /\ Len(frames) = 1
    /\ frames[1].IDE = 1 /\ frames[1].RTR = 1 /\ frames[1].DLC = 15
    /\ frames[1].ID = 291

(***************************************************************************)
(* C21.  Window sufficiency: a parse attempt whose DLC is at most 8, or    *)
(* whose RTR is 1, never exhausts the window of nbits = 160 slots: nextbit *)
(* is never entered with sample_k >= nbits (no RuntimeError), and no read  *)
(* of sample_level or sample_t is at an index >= nbits, the peek at a      *)
(* stuff bit and the end time sample_t[sample_k] of the last annotation    *)
(* included.  In the model a read past the window is an IndexError, and    *)
(* the only IndexError left is the store of a ninth data byte.             *)
(***************************************************************************)
WindowFull ==
    Len(sample_t) \in {0, nbits} /\ Len(sample_level) = Len(sample_t)

C21_WindowSuffices ==
    /\ WindowFull
    /\ exc # RuntimeError
    /\ sample_k # None => sample_k < nbits
    /\ exc = IndexError => RTR = 0 /\ DLC > 8 /\ i = 8 /\ sample_k < nbits

\* the longest frame was parsed to its last IFS bit, four slots from the end
C21_Witness ==
    /\ pc = "emit"
    /\ origin.kind = "clean" /\ origin.a \in LongestFrames
    /\ DLC = 8 /\ RTR = 0
    /\ sample_k = nbits - 4

(***************************************************************************)
(* C22.  Frame duration: every frame in frames has t2 > t1 and             *)
(* t2 <= t1 + 160 bit times, and t2 - t1 is the number of sample slots its *)
(* parse consumed, stuff bits included (times are in ticks, Bit ticks to a *)
(* bit time; the slots a parse consumed are the samples it recorded, which *)
(* lie strictly between its t1 and t2).                                    *)
(***************************************************************************)
SlotsOf(f) == { k \in 1..Len(samples) : f.t1 < samples[k].t /\ samples[k].t < f.t2 }

C22_FrameDuration ==
    \A n \in 1..Len(frames) :
        LET f == frames[n]
        IN  /\ f.t2 > f.t1
            /\ f.t2 <= f.t1 + nbits * Bit
            /\ f.t2 - f.t1 = Cardinality(SlotsOf(f)) * Bit

\* a frame whose parse consumed stuff bits as well
C22_Witness ==
    /\ Len(frames) >= 1
    /\ \E k \in SlotsOf(frames[1]) : samples[k].level >= 2
    /\ frames[1].t2 - frames[1].t1 > 100 * Bit

(***************************************************************************)
(* C23.  The output modes of digitize agree.  For every sample sequence    *)
(* and both values of inverted: the indices of the transition mode are     *)
(* strictly increasing and are exactly the positions i+1 where the latched *)
(* level changes between sample i and i+1, level0 is hi[0] XOR inverted,   *)
(* and the level sequence rebuilt from (indices, level0) by toggling at    *)
(* each index is the output of the dense mode for the same inverted flag.  *)
(* (On an empty sequence both modes raise at data[0].)                     *)
(***************************************************************************)
\* what the dense mode returns for the arguments of the call
Dense(a) == digitize(a.data, a.threshold, a.hysteresis, FALSE, a.inverted)

\* the level of sample k (0-based) rebuilt from the transition mode's output
Rebuilt(out, k) ==
    (out.level0 + Cardinality({ n \in 1..Len(out.indices) : out.indices[n] <= k })) % 2

C23_ModesAgree ==
    (pc = "digitized" /\ digitize_args.transitions) =>
        LET a == digitize_args
            out == digitize_out
            dense == Dense(a)
            n == Len(a.data)
        IN  /\ out.exc = dense.exc
            /\ out.exc = NoExc =>
                 /\ \A j \in 1..(Len(out.indices) - 1) : out.indices[j] < out.indices[j + 1]
                 /\ { out.indices[j] : j \in 1..Len(out.indices) }
                        = { k \in 1..(n - 1) : At(dense.digital, k - 1) # At(dense.digital, k) }
                 /\ out.level0 = At(dense.digital, 0)
                 /\ ~InDeadband(a, 1) =>
                        out.level0 = (IF Above(a, 1) # a.inverted THEN 1 ELSE 0)
                 /\ \A k \in 0..(n - 1) : Rebuilt(out, k) = At(dense.digital, k)

\* an inverted call that reported two transitions across a deadband sample
C23_Witness ==
    /\ pc = "digitized" /\ digitize_args.transitions /\ digitize_args.inverted
    /\ digitize_out.exc = NoExc
    /\ Len(digitize_out.indices) >= 2
    /\ \E k \in 1..Len(digitize_args.data) : InDeadband(digitize_args, k)
    /\ digitize_out.level0 = 0

(***************************************************************************)
(* C24.  HLA invocation.  When an HLA callback is configured, run() calls  *)
(* it exactly once per entry of frames, in the order of frames, and only   *)
(* after the whole capture has been parsed: until then there are no HLA    *)
(* annotations, and once run() has ended HLA_annotations has one entry per *)
(* frame, with that frame's t1 and t2 and the answer of the call made on   *)
(* it after the calls on the frames before it; HLA_errors is the number of *)
(* calls that answered None, whose entries are labelled '???'.  Frames     *)
(* that failed validation are not in frames and so are never passed.       *)
(***************************************************************************)
\* the frames before frame n that set last_command_id
CommandsBefore(n) ==
    { m \in 1..(n - 1) : /\ BitAnd(frames[m].ID, 268435456) = 0
                         /\ BitAnd(frames[m].ID, 255) \in desi_commands }

\* last_command_id of a fresh DESIcanbus after its calls on frames 1..n-1
LastBefore(n) ==
    IF CommandsBefore(n) = {} THEN None
    ELSE LET m == CHOOSE k \in CommandsBefore(n) : \A j \in CommandsBefore(n) : j <= k
         IN  BitAnd(frames[m].ID, 255)

\* the entry of HLA_annotations the call on frame n is to leave
HLAEntry(n) ==
    LET answer == DESIcanbus(LastBefore(n), frames[n]).text
    IN  [t1 |-> frames[n].t1, t2 |-> frames[n].t2,
         label |-> IF answer = NoText THEN Unknown ELSE answer]

HLACalled ==
    /\ Len(HLA_annotations) = Len(frames)
    /\ \A n \in 1..Len(frames) : HLA_annotations[n] = HLAEntry(n)
    /\ HLA_errors = Cardinality({ n \in 1..Len(frames) :
                                    DESIcanbus(LastBefore(n), frames[n]).text = NoText })
    /\ HLA_errors = Cardinality({ n \in 1..Len(HLA_annotations) :
                                    HLA_annotations[n].label = Unknown })

C24_HLAInvocation ==
    HLA # "None" =>
        /\ pc \notin {"done", "raised"} => HLA_annotations = << >> /\ HLA_errors = None
        /\ pc \in {"done", "raised"} => HLACalled

\* the part that holds: every run() that returns has called the HLA so
C24_ReturnedRuns ==
    HLA # "None" =>
        /\ pc \notin {"done", "raised"} => HLA_annotations = << >> /\ HLA_errors = None
        /\ pc = "done" => HLACalled

\* a returned run with a temperature answer and an answer None
C24_Reached ==
    /\ HLA # "None" /\ pc = "done" /\ Len(frames) = 2
    /\ HLACalled
    /\ HLA_errors = 1

(***************************************************************************)
(* C25.  Candidate SOF edge: whenever sample() has returned,               *)
(* (x0 + cursor) mod 2 = 1: the level just before dt[cursor] is recessive  *)
(* and dt[cursor] is an edge from recessive to dominant (the step to the   *)
(* idle state and the glitch skipping in steps of two keep this parity),   *)
(* and the window starts half a bit after it; hence the t1 of every        *)
(* emitted frame is the time of such an edge of the input stream.          *)
(***************************************************************************)
\* transition c (0-based) of the stream goes from recessive to dominant
SOFEdge(c) == c \in 0..(Len(dt) - 1) /\ (x0 + c) % 2 = 1

C25_CandidateEdge ==
    /\ pc \in LoopPcs =>
           /\ SOFEdge(cursor)
           /\ At(sample_t, 0) = At(dt, cursor) + HalfBit
    /\ \A n \in 1..Len(frames) :
           \E c \in 0..(Len(dt) - 1) : SOFEdge(c) /\ At(dt, c) = frames[n].t1

\* a window opened at a later edge of the stream, after a frame was emitted
C25_Witness ==
    /\ pc \in LoopPcs /\ Len(frames) = 1
    /\ cursor > 0 /\ SOFEdge(cursor)
    /\ frames[1].t1 = At(dt, 0)

(***************************************************************************)
(* C26.  Glitch suppression: a pair of transitions less than 0.1 bit times *)
(* apart at the candidate start edge is discarded by sample(), so no parse *)
(* attempt starts at an edge that is followed by another transition within *)
(* 0.1 bit times, and such a pair records no error; this holds wherever    *)
(* the pair lies in the stream, also when it is the last two transitions   *)
(* of the capture.                                                         *)
(***************************************************************************)
\* transitions c and c + 1 (0-based) are a glitch
GlitchAt(c) == c + 1 < Len(dt) /\ 10 * (At(dt, c + 1) - At(dt, c)) < Bit

\* the errors recorded at the first sample of a window opened at a glitch
GlitchErrors ==
    { kind \in DOMAIN errors :
          \E n \in 1..Len(errors[kind]) : \E c \in 0..(Len(dt) - 1) :
              GlitchAt(c) /\ errors[kind][n] = At(dt, c) + HalfBit }

C26_GlitchSuppressed ==
    /\ pc \in LoopPcs => ~GlitchAt(cursor)
    /\ GlitchErrors = {}

\* the part that holds: a glitch with a transition after it is skipped
C26_InnerGlitchSkipped ==
    pc \in LoopPcs => (cursor < Len(dt) - 2 => ~GlitchAt(cursor))

\* a window opened past a skipped glitch
C26_Skipped ==
    /\ pc \in LoopPcs /\ cursor = 2 /\ GlitchAt(0) /\ x0 = 1

(***************************************************************************)
(* C27.  Sample alignment: in the window built by sample(), for every slot *)
(* i, sample_t[i] = dt[cursor] + 0.5 + i, sample_idx[i] is the number of   *)
(* transitions of dt[cursor..] at or before sample_t[i], and               *)
(* sample_level[i] = (x0 + cursor + sample_idx[i]) mod 2, the level of the *)
(* stream at that time; a transition that falls exactly on a sample time   *)
(* is counted.  (dt is increasing, so n is the number of transitions of    *)
(* dt[cursor..] at or before t exactly when the n-th of them is at or      *)
(* before t and the next one, if any, is after t.)                         *)
(***************************************************************************)
CountsAtOrBefore(n, t) ==
    /\ n \in 0..(Len(dt) - cursor)
    /\ n > 0 => At(dt, cursor + n - 1) <= t
    /\ cursor + n < Len(dt) => At(dt, cursor + n) > t

CountsBefore(n, t) ==
    /\ n \in 0..(Len(dt) - cursor)
    /\ n > 0 => At(dt, cursor + n - 1) < t
    /\ cursor + n < Len(dt) => At(dt, cursor + n) >= t

C27_SampleAlignment ==
    pc \in LoopPcs =>
        \A s \in 0..(nbits - 1) :
            /\ At(sample_t, s) = At(dt, cursor) + HalfBit + s * Bit
            /\ CountsAtOrBefore(At(sample_idx, s), At(sample_t, s))
            /\ At(sample_level, s) = (x0 + cursor + At(sample_idx, s)) % 2

\* what the window holds: the transitions strictly before each sample time
C27_CountsStrictlyBefore ==
    pc \in LoopPcs =>
        \A s \in 0..(nbits - 1) :
            /\ At(sample_t, s) = At(dt, cursor) + HalfBit + s * Bit
            /\ CountsBefore(At(sample_idx, s), At(sample_t, s))
            /\ At(sample_level, s) = (x0 + cursor + At(sample_idx, s)) % 2

\* a window with a transition exactly on a sample time
C27_OnSampleTime ==
    /\ pc \in LoopPcs
    /\ \E s \in 0..(nbits - 1) : \E c \in cursor..(Len(dt) - 1) :
           At(dt, c) = At(sample_t, s)

(***************************************************************************)
(* C28.  Exactly one outcome per parse attempt, and the cursor only        *)
(* advances.  Every attempt of decode() either appends exactly one frame   *)
(* or records exactly one error with one '!' annotation, never both and    *)
(* never neither: the steps of an attempt leave frames, errors and the '!' *)
(* annotations alone and lead to the append of the frame or to the handler *)
(* of run(); an attempt that ends in an error leaves frames unchanged.     *)
(* Each advance() moves the cursor strictly forward, to the first          *)
(* transition at or after the centre of the last consumed sample           *)
(* (sample_t[k-1]), from where sample() looks for the next candidate edge; *)
(* so the cursor never decreases during a run.                             *)
(***************************************************************************)
OneOutcome ==
    /\ pc = "emit" =>
           /\ Len(frames') = Len(frames) + 1
           /\ SubSeq(frames', 1, Len(frames)) = frames
           /\ errors' = errors /\ Bangs' = Bangs
    /\ pc = "except" =>
           /\ frames' = frames
           /\ ErrorTotal' = ErrorTotal + 1
           /\ Len(Bangs') = Len(Bangs) + 1
    /\ pc \in LoopPcs \ {"emit", "except"} =>
           /\ frames' = frames /\ errors' = errors /\ Bangs' = Bangs
           /\ pc' \in LoopPcs

\* the same without the demand that an attempt reaches an outcome
AtMostOneOutcome ==
    /\ pc = "emit" =>
           /\ Len(frames') = Len(frames) + 1
           /\ SubSeq(frames', 1, Len(frames)) = frames
           /\ errors' = errors /\ Bangs' = Bangs
    /\ pc = "except" =>
           /\ frames' = frames
           /\ ErrorTotal' = ErrorTotal + 1
           /\ Len(Bangs') = Len(Bangs) + 1
    /\ pc \in LoopPcs \ {"emit", "except"} =>
           /\ frames' = frames /\ errors' = errors /\ Bangs' = Bangs
           /\ pc' \in LoopPcs \/ (pc' = "raised" /\ RTR = 0 /\ DLC > 8)

CursorAdvances ==
    /\ cursor # None => cursor' >= cursor
    /\ pc \in {"emit", "except"} =>
           LET value == cursor + At(sample_idx, sample_k - 1)
               t == At(sample_t, sample_k - 1)
           IN  /\ value > cursor
               /\ At(dt, value - 1) < t
               /\ value < Len(dt) => At(dt, value) >= t
               /\ pc' = "decode" => cursor' >= value
               /\ pc' # "decode" => value >= Len(dt) \/ (x0 + value) % 2 = 0

C28_OneOutcome == [][OneOutcome /\ CursorAdvances]_vars

\* the part that holds: no attempt has two outcomes, and the cursor advances
C28_AtMostOneOutcome == [][AtMostOneOutcome /\ CursorAdvances]_vars

\* both outcomes in one run: a recorded error, then a frame
C28_Reached ==
    /\ pc = "done" /\ Len(frames) = 1 /\ ErrorTotal = 1 /\ Len(Bangs) = 1
    /\ cursor > 0

=============================================================================
